---- MODULE Spec2Model ----
(***************************************************************************)
(* ResearchApp (src/main.py): a Tk application that keeps a rolling buffer *)
(* of microphone samples and, on every accepted key press, saves the       *)
(* trailing segment of the buffer as a WAV clip plus one metadata row.     *)
(*                                                                         *)
(* Threads of the program:                                                 *)
(*   - the Tk main thread: start_recording, stop_recording, and the calls  *)
(*     scheduled with root.after: countdown_timer and the status updates;  *)
(*   - one audio thread per start_recording (record_audio), whose input    *)
(*     stream runs callback() on the audio library's own thread;           *)
(*   - one keyboard thread per start_recording (listen_keyboard), whose    *)
(*     pynput listener runs on_press() -> save_key_audio().                *)
(* A thread is identified by the number of the start_recording call        *)
(* (the session) that spawned it.                                          *)
(*                                                                         *)
(* Samples: the k-th sample written into the buffer (in the order of the   *)
(* callbacks' critical sections) has the value k, and 0 is the silence the *)
(* buffer is constructed with.  callback() never inspects sample values,   *)
(* so labelling samples by their position loses no behaviour and makes     *)
(* every reordering, loss or duplication of samples visible.               *)
(***************************************************************************)
EXTENDS Integers, Sequences, FiniteSets, TLC

(* ------------------------------ bounds -------------------------------- *)

\* buffer_samples = int(fs * buffer_duration) = 88200 in the program
BufferSamples == 3

\* segment_samples = int(fs * segment_duration) = 8820 in the program
SegmentSamples == 2

\* start_recording calls that pass the duration check (Spec, SpecAudio,
\* SpecBuffer)
MaxSessions == 2

\* physical key presses, of any key (Spec)
MaxPresses == 1

\* physical key presses of the keys of FileKeys (SpecFiles)
MaxFilePresses == 2

\* start_recording calls that pass the duration check (SpecFiles)
MaxFileSessions == 1

\* physical key presses of the keys of AudioKeys (SpecAudio)
MaxAudioPresses == 1

\* samples delivered by all audio callbacks together (SpecAudio, SpecBuffer)
MaxDelivered == 4

\* samples delivered by all audio callbacks together (Spec, SpecFiles)
MaxDeliveredKeys == 1

\* largest value datetime.now() returns (Spec, SpecFiles)
MaxTime == 1

\* largest value datetime.now() returns (SpecAudio)
MaxAudioTime == 0

\* ticks of the Tk clock in the 1000 ms of root.after(1000, ...)
TicksPerSecond == 2

\* longest duration, in seconds, a session is started with (SpecCountdown)
MaxDuration == 2

\* longest duration, in seconds, a session is started with (every other
\* specification)
MaxShortDuration == 1

Sessions == 1..MaxSessions

\* numpy arrays alive at once: self.audio_buffer, one segment view per
\* keyboard listener, and the array np.roll is building
ArrayIds == 1..(MaxSessions + 2)

\* values of the duration selector after int(): invalid (<= 0, which also
\* stands for a text int() raises on) and valid
DurationInputs == 0..MaxDuration

\* the ticks counted since start_recording: the seconds of the longest
\* session and one more
MaxElapsed == (MaxDuration + 1) * TicksPerSecond

\* the error texts the threads schedule for status_label (lines 175, 181,
\* 204, 237), without the exception's message
StatusErrors == {"Audio error", "Keyboard error", "Save error"}

(* ----------------------------- key inputs ------------------------------ *)

\* pynput hands on_press either a KeyCode (with .char, possibly None) or a
\* member of the Key enum (no .char attribute; str(key) is "Key.<name>").
\* "\t" stands for a control character such as the '\x01' of ctrl+a.
RawKeys ==
    { [type |-> "KeyCode", char |-> "a",  name |-> "<97>"],
      [type |-> "KeyCode", char |-> "\t", name |-> "<9>"],
      [type |-> "KeyCode", char |-> "",   name |-> "<65437>"],
      [type |-> "Key", char |-> "", name |-> "Key.space"],
      [type |-> "Key", char |-> "", name |-> "Key.enter"],
      [type |-> "Key", char |-> "", name |-> "Key.backspace"],
      [type |-> "Key", char |-> "", name |-> "Key.shift"] }

\* the keys pressed under SpecFiles and under SpecAudio
FileKeys == {key \in RawKeys : key.name \in {"<97>", "Key.space", "Key.shift"}}
AudioKeys == {key \in RawKeys : key.name \in {"<97>", "Key.shift"}}

\* str.isprintable() on the strings on_press can see here
IsPrintable(k) == k \notin {"\t"}

\* line 193: k = key.char if hasattr(key, 'char') and key.char else str(key)
Decode(key) ==
    IF key.type = "KeyCode" /\ key.char # "" THEN key.char ELSE key.name

AcceptedNoControlList(k) == IsPrintable(k)

\* line 197: the filter of on_press
Accepted(k) ==
    \/ (IsPrintable(k) /\ Len(k) = 1)
    \/ k \in {"Key.space", "Key.enter", "Key.backspace"}

\* lines 212-213: wav_filename = f"{key_label}_{timestamp}.wav"
WavFilename(key_label, timestamp) ==
    key_label \o "_" \o ToString(timestamp) \o ".wav"

(* ---------------------------- numpy helpers ---------------------------- *)

\* np.zeros(n)
Zeros(n) == [i \in 1..n |-> 0]

NpRollWrongWay(a, shift) ==
    [j \in 1..Len(a) |-> a[((j - 1 + shift) % Len(a)) + 1]]

\* np.roll(a, shift): element i moves to position (i + shift) mod n
NpRoll(a, shift) ==
    [j \in 1..Len(a) |-> a[((j - 1 - shift) % Len(a)) + 1]]

\* a[-frames:] = indata, for 1 <= frames <= len(a)
SetTail(a, frames, indata) ==
    [j \in 1..Len(a) |->
        IF j > Len(a) - frames THEN indata[j - (Len(a) - frames)] ELSE a[j]]

\* a[-n:], for 1 <= n <= len(a)
Tail_(a, n) == [j \in 1..n |-> a[Len(a) - n + j]]

Abs(x) == IF x < 0 THEN -x ELSE x

RECURSIVE MaxAbs(_)
\* np.max(np.abs(segment))
MaxAbs(seg) ==
    IF seg = <<>> THEN 0
    ELSE LET m == MaxAbs(Tail(seg)) IN
         IF Abs(Head(seg)) > m THEN Abs(Head(seg)) ELSE m

\* a / b truncated toward zero, in exact arithmetic
TruncDiv(a, b) == IF a >= 0 THEN a \div b ELSE -((-a) \div b)

RECURSIVE Pow2(_)
Pow2(n) == IF n = 0 THEN 1 ELSE 2 * Pow2(n - 1)

\* The samples are float32 and so is every operation of line 220.  A
\* positive float32 is written [m, e] for m * 2^(-e) with a significand m of
\* 24 bits, 2^23 <= m <= 2^24; zero is [0, 0].  A sample n of the model is
\* the float32 n (any power of two times it gives the same quotients).

RECURSIVE LongDivide(_, _, _, _)
\* long division: q + rem / p is the quotient scaled by 2^e; digits are
\* produced, eight binary digits at a time while q < 2^15 and then one at
\* a time, until q has 24 bits (q >= 2^23)
LongDivide(q, rem, e, p) ==
    IF q >= 8388608 THEN [q |-> q, rem |-> rem, e |-> e]
    ELSE IF q < 32768
    THEN LongDivide(256 * q + (256 * rem) \div p, (256 * rem) % p, e + 8, p)
    ELSE LongDivide(2 * q + (2 * rem) \div p, (2 * rem) % p, e + 1, p)

\* line 220: x / p for float32 0 <= x <= p, p > 0, rounded to the nearest
\* float32, ties to even
Float32Divide(x, p) ==
    IF x = 0 THEN [m |-> 0, e |-> 0]
    ELSE LET d == LongDivide(x \div p, x % p, 0, p)
             up == 2 * d.rem > p \/ (2 * d.rem = p /\ d.q % 2 = 1)
         IN [m |-> IF up THEN d.q + 1 ELSE d.q, e |-> d.e]

\* line 220: f * 32767 for a float32 f > 0, rounded to the nearest
\* float32, ties to even.  The product has 38 bits (hi < 2^26) or 39 and
\* is kept in two parts, hi * 2^12 + lo; the low 14 or 15 bits are cut.
Float32Times32767(f) ==
    LET low == (f.m % 4096) * 32767
        hi == (f.m \div 4096) * 32767 + low \div 4096
        lo == low % 4096
        cut == IF hi < 67108864 THEN 4 ELSE 8
        m == hi \div cut
        rest == (hi % cut) * 4096 + lo
        half == cut * 2048
        up == rest > half \/ (rest = half /\ m % 2 = 1)
    IN [m |-> IF up THEN m + 1 ELSE m,
        e |-> f.e - (IF cut = 4 THEN 14 ELSE 15)]

\* np.int16(f) for a float32 f >= 0 below 2^15: the fraction is cut off
Float32ToInt16(f) ==
    IF f.m = 0 \/ f.e > 24 THEN 0
    ELSE IF f.e <= 0 THEN f.m * Pow2(-f.e)
    ELSE f.m \div Pow2(f.e)

\* line 220 for one sample x of a segment with peak p > 0
Encode(x, p) ==
    IF x = 0 THEN 0
    ELSE LET y == Float32ToInt16(Float32Times32767(Float32Divide(Abs(x), p)))
         IN IF x < 0 THEN -y ELSE y

NormalizeUnscaled(seg) == seg

\* lines 219-222: peak normalisation to 16-bit PCM
Normalize(seg) ==
    IF MaxAbs(seg) > 0
    THEN [j \in 1..Len(seg) |-> Encode(seg[j], MaxAbs(seg))]
    ELSE seg

(* ------------------------------- state --------------------------------- *)

VARIABLES
    \* ResearchApp fields written by the Tk main thread
    is_recording, timer_running, recording_duration, remaining_time,
    start_button, stop_button,
    \* self.listener: 0 is None, s is the Listener made by keyboard thread s
    listener,
    \* self.input_device is not None
    input_device,
    \* position of the Tk main thread, number of sessions started
    uiPc, session,
    \* audio thread s (record_audio) and its stream's callback
    audioPc, cbPc, cbFrames,
    \* the rolling buffer: lock holder, array store, self.audio_buffer
    buffer_lock, heap, audio_buffer,
    \* samples written into the buffer so far
    delivered,
    \* keyboard thread s (listen_keyboard), its listener's _running flag
    \* and the key events queued for its on_press
    kbPc, running, pending,
    \* on_press / save_key_audio of listener s: position and locals
    hPc, hKey, hStamp, hSeg, hSeg16,
    \* the latest value datetime.now() returned, the recordings directory
    \* and metadata.csv
    now, files, rows,
    \* history: samples delivered when listener s took its snapshot, the
    \* save_key_audio invocation it runs, invocations so far, key presses so
    \* far with the invocations each caused and whether one was due, and the
    \* clip writes that succeeded, in order
    hSnap, hInv, invocations, presses, saves, due, wavLog,
    \* the Tk widgets and event loop: the text of status_label ("Idle" for
    \* "Status: Idle", an error class for its message), the seconds
    \* timer_label shows (0 for the empty text), the status_label.config
    \* calls scheduled with root.after(0, ...) and not run yet, by text, the
    \* countdown_timer calls scheduled with root.after(1000, ...) and not
    \* run yet (ticks until each is due, in the order they fall due), and
    \* the ticks since the latest start_recording, counted up to MaxElapsed
    status_label, timer_label, status_after, timers, elapsed

uiVars == <<is_recording, timer_running, recording_duration, remaining_time,
            start_button, stop_button, uiPc, session>>
audioVars == <<audioPc, cbPc, cbFrames>>
bufVars == <<buffer_lock, heap, audio_buffer, delivered>>
kbVars == <<kbPc, running, pending>>
saveVars == <<hPc, hKey, hStamp, hSeg, hSeg16, hSnap, hInv>>
fsVars == <<files, rows, wavLog>>
pressVars == <<invocations, presses, saves, due>>
tkVars == <<status_label, timer_label, status_after, timers, elapsed>>

vars == <<uiVars, audioVars, bufVars, kbVars, saveVars, fsVars, pressVars,
          tkVars, listener, input_device, now>>

NoLock == <<"free", 0>>

\* lines 17-83: ResearchApp.__init__
Init ==
    /\ is_recording = FALSE
    /\ timer_running = FALSE
    /\ recording_duration = 60
    /\ remaining_time = 0
    /\ start_button = "normal"
    /\ stop_button = "disabled"
    /\ listener = 0
    /\ input_device \in BOOLEAN
    /\ uiPc = "idle"
    /\ session = 0
    /\ audioPc = [s \in Sessions |-> "none"]
    /\ cbPc = [s \in Sessions |-> "idle"]
    /\ cbFrames = [s \in Sessions |-> 0]
    /\ buffer_lock = NoLock
    /\ heap = [a \in ArrayIds |-> IF a = 1 THEN Zeros(BufferSamples) ELSE <<>>]
    /\ audio_buffer = 1
    /\ delivered = 0
    /\ kbPc = [s \in Sessions |-> "none"]
    /\ running = [s \in Sessions |-> FALSE]
    /\ pending = [s \in Sessions |-> <<>>]
    /\ hPc = [s \in Sessions |-> "idle"]
    /\ hKey = [s \in Sessions |-> ""]
    /\ hStamp = [s \in Sessions |-> 0]
    /\ hSeg = [s \in Sessions |-> 0]
    /\ hSeg16 = [s \in Sessions |-> <<>>]
    /\ hSnap = [s \in Sessions |-> 0]
    /\ hInv = [s \in Sessions |-> 0]
    /\ now = 0
    /\ files = [n \in {} |-> 0]
    /\ rows = <<>>
    /\ invocations = 0
    /\ presses = 0
    /\ saves = <<>>
    /\ due = <<>>
    /\ wavLog = <<>>
    /\ status_label = "Idle"
    /\ timer_label = 0
    /\ status_after = [text \in StatusErrors |-> 0]
    /\ timers = <<>>
    /\ elapsed = 0

(* --------------------------- Tk main thread ---------------------------- *)

StartRecordingInvalidAssignsFirst ==
    /\ uiPc = "idle"
    /\ start_button = "normal"
    /\ \E d \in DurationInputs :
          /\ d <= 0
          /\ recording_duration' = d
    /\ uiPc' = "error_dialog"
    /\ UNCHANGED <<is_recording, timer_running, remaining_time, start_button,
                   stop_button, session, audioVars, bufVars, kbVars, saveVars,
                   fsVars, pressVars, tkVars, listener, input_device, now>>

\* lines 108-117: the duration is not a positive integer; start_recording
\* shows the modal error box and waits in it
StartRecordingInvalid ==
    /\ uiPc = "idle"
    /\ start_button = "normal"
    /\ \E d \in DurationInputs : d <= 0
    /\ uiPc' = "error_dialog"
    /\ UNCHANGED <<is_recording, timer_running, recording_duration,
                   remaining_time, start_button, stop_button, session,
                   audioVars, bufVars, kbVars, saveVars, fsVars, pressVars,
                   tkVars, listener, input_device, now>>

\* lines 117-118: the user closes the error box and start_recording returns
StartRecordingReturn ==
    /\ uiPc = "error_dialog"
    /\ uiPc' = "idle"
    /\ UNCHANGED <<is_recording, timer_running, recording_duration,
                   remaining_time, start_button, stop_button, session,
                   audioVars, bufVars, kbVars, saveVars, fsVars, pressVars,
                   tkVars, listener, input_device, now>>

\* lines 106-130, with a valid duration d.  The Start button is disabled
\* from here to the next stop_recording.
StartRecording(maxSessions, maxDuration) ==
    /\ uiPc = "idle"
    /\ start_button = "normal"
    /\ session < maxSessions
    /\ \E d \in DurationInputs :
          /\ d > 0
          /\ d <= maxDuration
          /\ recording_duration' = d
          /\ remaining_time' = d
          /\ timer_label' = d
    /\ is_recording' = TRUE
    /\ timer_running' = TRUE
    /\ timers' = Append(timers, TicksPerSecond)
    /\ elapsed' = 0
    /\ status_label' = "Recording"
    /\ start_button' = "disabled"
    /\ stop_button' = "normal"
    /\ session' = session + 1
    /\ audioPc' = [audioPc EXCEPT ![session + 1] = "spawned"]
    /\ kbPc' = [kbPc EXCEPT ![session + 1] = "spawned"]
    /\ UNCHANGED <<uiPc, cbPc, cbFrames, bufVars, running, pending, saveVars,
                   fsVars, pressVars, status_after, listener, input_device,
                   now>>

\* lines 133-138: stop_recording up to the test of self.listener
StopRecordingFlags ==
    /\ is_recording' = FALSE
    /\ timer_running' = FALSE
    /\ timer_label' = 0
    /\ status_label' = "Idle"
    /\ start_button' = "normal"
    /\ stop_button' = "disabled"
    /\ uiPc' = "stop_listener"

\* lines 132-138, called by the Stop button or, where the countdown is
\* left out of the specification, by countdown_timer (line 153), which
\* calls it only while is_recording and timer_running hold, that is,
\* while the Stop button is enabled
StopRecording ==
    /\ uiPc = "idle"
    /\ stop_button = "normal"
    /\ StopRecordingFlags
    /\ UNCHANGED <<recording_duration, remaining_time, session, audioVars,
                   bufVars, kbVars, saveVars, fsVars, pressVars, status_after,
                   timers, elapsed, listener, input_device, now>>

\* lines 132-138, called where the program itself never calls it: while
\* the Stop button is disabled
StopRecordingRepeated ==
    /\ uiPc = "idle"
    /\ stop_button = "disabled"
    /\ StopRecordingFlags
    /\ UNCHANGED <<recording_duration, remaining_time, session, audioVars,
                   bufVars, kbVars, saveVars, fsVars, pressVars, status_after,
                   timers, elapsed, listener, input_device, now>>

StopListenerSkips ==
    /\ uiPc = "stop_listener"
    /\ uiPc' = "idle"
    /\ UNCHANGED tkVars
    /\ UNCHANGED <<is_recording, timer_running, recording_duration,
                   remaining_time, start_button, stop_button, session,
                   audioVars, bufVars, kbVars, saveVars, fsVars, pressVars,
                   listener, input_device, now>>

\* lines 139-143: if self.listener: self.listener.stop().  Listener.stop()
\* acts only on a listener that is running; it drops the events not yet
\* handed to on_press, and an on_press already running finishes.
StopListener ==
    /\ uiPc = "stop_listener"
    /\ uiPc' = "idle"
    /\ IF listener # 0 /\ running[listener]
       THEN /\ running' = [running EXCEPT ![listener] = FALSE]
            /\ pending' = [pending EXCEPT ![listener] = <<>>]
       ELSE UNCHANGED <<running, pending>>
    /\ UNCHANGED tkVars
    /\ UNCHANGED <<is_recording, timer_running, recording_duration,
                   remaining_time, start_button, stop_button, session,
                   audioVars, bufVars, kbPc, saveVars, fsVars, pressVars,
                   listener, input_device, now>>

Min(a, b) == IF a < b THEN a ELSE b
Max(a, b) == IF a > b THEN a ELSE b

\* one tick of the Tk clock goes by: every scheduled call is one tick
\* nearer to being due (a call that is due stays due until Tk runs it)
Tick ==
    /\ timers' = [i \in 1..Len(timers) |-> Max(timers[i] - 1, 0)]
    /\ elapsed' = Min(elapsed + 1, MaxElapsed)
    /\ UNCHANGED <<uiVars, audioVars, bufVars, kbVars, saveVars, fsVars,
                   pressVars, status_label, timer_label, status_after,
                   listener, input_device, now>>

\* the Tk event loop, in the main loop or in the loop of the error box,
\* can run the countdown_timer call that fell due first
CountdownDue == timers # <<>> /\ Head(timers) = 0

\* lines 145-147: countdown_timer finds no session running and returns
CountdownIgnored ==
    /\ uiPc \in {"idle", "error_dialog"}
    /\ CountdownDue
    /\ ~is_recording \/ ~timer_running
    /\ timers' = Tail(timers)
    /\ UNCHANGED <<uiVars, audioVars, bufVars, kbVars, saveVars, fsVars,
                   pressVars, status_label, timer_label, status_after,
                   elapsed, listener, input_device, now>>

CountdownDecrementNoReschedule ==
    /\ uiPc = "idle"
    /\ CountdownDue
    /\ is_recording /\ timer_running
    /\ remaining_time > 0
    /\ remaining_time' = remaining_time - 1
    /\ timer_label' = remaining_time - 1
    /\ timers' = Tail(timers)
    /\ UNCHANGED <<is_recording, timer_running, recording_duration,
                   start_button, stop_button, uiPc, session, audioVars,
                   bufVars, kbVars, saveVars, fsVars, pressVars, status_label,
                   status_after, elapsed, listener, input_device, now>>

\* lines 145-151: one second less, shown by update_timer_label, and the
\* next call is scheduled.  The error box is never open here: the Start
\* button is disabled while is_recording holds.
CountdownDecrement ==
    /\ uiPc = "idle"
    /\ CountdownDue
    /\ is_recording /\ timer_running
    /\ remaining_time > 0
    /\ remaining_time' = remaining_time - 1
    /\ timer_label' = remaining_time - 1
    /\ timers' = Append(Tail(timers), TicksPerSecond)
    /\ UNCHANGED <<is_recording, timer_running, recording_duration,
                   start_button, stop_button, uiPc, session, audioVars,
                   bufVars, kbVars, saveVars, fsVars, pressVars, status_label,
                   status_after, elapsed, listener, input_device, now>>

\* lines 145-148, 152-153: no time is left and countdown_timer calls
\* stop_recording
CountdownStop ==
    /\ uiPc = "idle"
    /\ CountdownDue
    /\ is_recording /\ timer_running
    /\ remaining_time <= 0
    /\ timers' = Tail(timers)
    /\ StopRecordingFlags
    /\ UNCHANGED <<recording_duration, remaining_time, session, audioVars,
                   bufVars, kbVars, saveVars, fsVars, pressVars, status_after,
                   elapsed, listener, input_device, now>>

\* the Tk event loop runs a status_label.config call scheduled with
\* root.after(0, ...)
StatusUpdate(text) ==
    /\ uiPc \in {"idle", "error_dialog"}
    /\ status_after[text] > 0
    /\ status_after' = [status_after EXCEPT ![text] = @ - 1]
    /\ status_label' = text
    /\ UNCHANGED <<uiVars, audioVars, bufVars, kbVars, saveVars, fsVars,
                   pressVars, timer_label, timers, elapsed, listener,
                   input_device, now>>

\* self.root.after(0, self.status_label.config, {"text": ...}) by a
\* thread that caught an exception (lines 175, 181, 204, 237)
Report(text) ==
    /\ status_after' = [status_after EXCEPT ![text] = @ + 1]
    /\ UNCHANGED <<status_label, timer_label, timers, elapsed>>

(* ----------------------------- audio thread ---------------------------- *)

AudioNoDeviceEndsSession(s) ==
    /\ audioPc[s] = "spawned"
    /\ ~input_device
    /\ audioPc' = [audioPc EXCEPT ![s] = "done"]
    /\ is_recording' = FALSE
    /\ Report("Audio error")
    /\ UNCHANGED <<timer_running, recording_duration, remaining_time,
                   start_button, stop_button, uiPc, session, cbPc, cbFrames,
                   bufVars, kbVars, saveVars, fsVars, pressVars, listener,
                   input_device, now>>

\* lines 174-176: no input device; the thread reports it and returns
AudioNoDevice(s) ==
    /\ audioPc[s] = "spawned"
    /\ ~input_device
    /\ audioPc' = [audioPc EXCEPT ![s] = "done"]
    /\ Report("Audio error")
    /\ UNCHANGED <<uiVars, cbPc, cbFrames, bufVars, kbVars, saveVars, fsVars,
                   pressVars, listener, input_device, now>>

\* line 177: sd.InputStream(...) is entered; callbacks start to arrive
AudioOpenStream(s) ==
    /\ audioPc[s] = "spawned"
    /\ input_device
    /\ audioPc' = [audioPc EXCEPT ![s] = "streaming"]
    /\ UNCHANGED tkVars
    /\ UNCHANGED <<uiVars, cbPc, cbFrames, bufVars, kbVars, saveVars, fsVars,
                   pressVars, listener, input_device, now>>

\* lines 177, 180-182: opening the stream raises; the thread reports and returns
AudioOpenError(s) ==
    /\ audioPc[s] = "spawned"
    /\ input_device
    /\ audioPc' = [audioPc EXCEPT ![s] = "done"]
    /\ Report("Audio error")
    /\ UNCHANGED <<uiVars, cbPc, cbFrames, bufVars, kbVars, saveVars, fsVars,
                   pressVars, listener, input_device, now>>

\* lines 178-179: the loop reads is_recording = False and leaves the with
\* block, which closes the stream once its running callback has returned
AudioExit(s) ==
    /\ audioPc[s] = "streaming"
    /\ ~is_recording
    /\ cbPc[s] = "idle"
    /\ audioPc' = [audioPc EXCEPT ![s] = "done"]
    /\ UNCHANGED tkVars
    /\ UNCHANGED <<uiVars, cbPc, cbFrames, bufVars, kbVars, saveVars, fsVars,
                   pressVars, listener, input_device, now>>

RECURSIVE SumTo(_, _)
SumTo(f, n) == IF n = 0 THEN 0 ELSE f[n] + SumTo(f, n - 1)

\* samples already handed to callbacks that have not written them yet
InFlight == SumTo(cbFrames, MaxSessions)

\* lines 166-168: callback() of stream s is called while nothing is recorded
CallbackNotRecording(s) ==
    /\ audioPc[s] = "streaming"
    /\ cbPc[s] = "idle"
    /\ ~is_recording
    /\ UNCHANGED vars

\* lines 166-167: callback(indata, frames, ...) of stream s passes the test
\* of is_recording
CallbackEnter(s, maxDelivered) ==
    /\ audioPc[s] = "streaming"
    /\ cbPc[s] = "idle"
    /\ is_recording
    /\ \E frames \in 1..BufferSamples :
          /\ delivered + InFlight + frames <= maxDelivered
          /\ cbFrames' = [cbFrames EXCEPT ![s] = frames]
    /\ cbPc' = [cbPc EXCEPT ![s] = "wait"]
    /\ UNCHANGED tkVars
    /\ UNCHANGED <<uiVars, audioPc, bufVars, kbVars, saveVars, fsVars,
                   pressVars, listener, input_device, now>>

\* line 169: with self.buffer_lock (acquire)
CallbackAcquire(s) ==
    /\ cbPc[s] = "wait"
    /\ buffer_lock = NoLock
    /\ buffer_lock' = <<"callback", s>>
    /\ cbPc' = [cbPc EXCEPT ![s] = "locked"]
    /\ UNCHANGED tkVars
    /\ UNCHANGED <<uiVars, audioPc, cbFrames, heap, audio_buffer, delivered,
                   kbVars, saveVars, fsVars, pressVars, listener, input_device,
                   now>>

\* the arrays some variable of the program refers to
Referenced(buf, segs) == {buf} \cup {segs[s] : s \in Sessions}

\* the array store without the arrays nothing refers to any more
Collect(h, buf, segs) ==
    [a \in ArrayIds |-> IF a \in Referenced(buf, segs) THEN h[a] ELSE <<>>]

NewArrayInPlace == audio_buffer

\* line 171: np.roll returns a new array
NewArray ==
    CHOOSE a \in ArrayIds :
        /\ a \notin Referenced(audio_buffer, hSeg)
        /\ \A b \in ArrayIds :
              b \notin Referenced(audio_buffer, hSeg) => a <= b

\* the samples of the frame the callback writes
Indata(frames) == [i \in 1..frames |-> delivered + i]

\* lines 171-172 and the release of the lock
CallbackRollWrite(s) ==
    /\ cbPc[s] = "locked"
    /\ LET frames == cbFrames[s]
           rolled == NpRoll(heap[audio_buffer], -frames)
           a == NewArray
       IN /\ audio_buffer' = a
          /\ heap' = Collect([heap EXCEPT ![a] = SetTail(rolled, frames,
                                                         Indata(frames))],
                             a, hSeg)
          /\ delivered' = delivered + frames
    /\ buffer_lock' = NoLock
    /\ cbPc' = [cbPc EXCEPT ![s] = "idle"]
    /\ cbFrames' = [cbFrames EXCEPT ![s] = 0]
    /\ UNCHANGED tkVars
    /\ UNCHANGED <<uiVars, audioPc, kbVars, saveVars, fsVars, pressVars,
                   listener, input_device, now>>

(* ---------------------------- keyboard thread -------------------------- *)

\* line 200: self.listener = keyboard.Listener(on_press=on_press)
KbCreateListener(s) ==
    /\ kbPc[s] = "spawned"
    /\ listener' = s
    /\ kbPc' = [kbPc EXCEPT ![s] = "created"]
    /\ UNCHANGED tkVars
    /\ UNCHANGED <<uiVars, audioVars, bufVars, running, pending, saveVars,
                   fsVars, pressVars, input_device, now>>

\* line 201: self.listener.start(); the hook is installed
KbStartListener(s) ==
    /\ kbPc[s] = "created"
    /\ running' = [running EXCEPT ![s] = TRUE]
    /\ kbPc' = [kbPc EXCEPT ![s] = "listening"]
    /\ UNCHANGED tkVars
    /\ UNCHANGED <<uiVars, audioVars, bufVars, pending, saveVars, fsVars,
                   pressVars, listener, input_device, now>>

\* lines 200-201, 203-205: making or starting the listener raises
KbHookError(s) ==
    /\ kbPc[s] \in {"spawned", "created"}
    /\ kbPc' = [kbPc EXCEPT ![s] = "done"]
    /\ Report("Keyboard error")
    /\ UNCHANGED <<uiVars, audioVars, bufVars, running, pending, saveVars,
                   fsVars, pressVars, listener, input_device, now>>

\* line 202: self.listener.join() returns once the listener was stopped
KbJoinReturns(s) ==
    /\ kbPc[s] = "listening"
    /\ ~running[s]
    /\ hPc[s] = "idle"
    /\ kbPc' = [kbPc EXCEPT ![s] = "done"]
    /\ UNCHANGED tkVars
    /\ UNCHANGED <<uiVars, audioVars, bufVars, running, pending, saveVars,
                   fsVars, pressVars, listener, input_device, now>>

\* the claim's reading of a raw key: one printable character, or space,
\* enter or backspace
KeyIsLabelled(key) ==
    \/ key.type = "KeyCode" /\ key.char # "" /\ IsPrintable(key.char)
    \/ key.type = "Key" /\ key.name \in {"Key.space", "Key.enter",
                                         "Key.backspace"}

\* a physical key press: every installed hook queues it for its on_press
\* (a press no hook sees changes nothing in the program)
KeyPress(keys, maxPresses) ==
    /\ presses < maxPresses
    /\ \E s \in Sessions : running[s]
    /\ \E key \in keys :
          pending' = [s \in Sessions |->
                         IF running[s]
                         THEN Append(pending[s],
                                     [press |-> presses + 1, key |-> key])
                         ELSE pending[s]]
    /\ presses' = presses + 1
    /\ saves' = Append(saves, 0)
    /\ due' = Append(due, FALSE)
    /\ UNCHANGED tkVars
    /\ UNCHANGED <<uiVars, audioVars, bufVars, kbPc, running, saveVars,
                   fsVars, invocations, listener, input_device, now>>

(* ----------------------- on_press and save_key_audio -------------------- *)

\* on_press of listener s returns: its locals, the segment view among
\* them, are dropped
Return(s) ==
    /\ hPc' = [hPc EXCEPT ![s] = "idle"]
    /\ hKey' = [hKey EXCEPT ![s] = ""]
    /\ hStamp' = [hStamp EXCEPT ![s] = 0]
    /\ hSeg' = [hSeg EXCEPT ![s] = 0]
    /\ hSeg16' = [hSeg16 EXCEPT ![s] = <<>>]
    /\ hSnap' = [hSnap EXCEPT ![s] = 0]
    /\ hInv' = [hInv EXCEPT ![s] = 0]
    /\ heap' = Collect(heap, audio_buffer, [hSeg EXCEPT ![s] = 0])

\* lines 189-191: on_press is called while nothing is recorded
OnPressNotRecording(s) ==
    /\ hPc[s] = "idle"
    /\ pending[s] # <<>>
    /\ ~is_recording
    /\ pending' = [pending EXCEPT ![s] = Tail(pending[s])]
    /\ UNCHANGED tkVars
    /\ UNCHANGED <<uiVars, audioVars, bufVars, kbPc, running, saveVars,
                   fsVars, pressVars, listener, input_device, now>>

\* lines 189-197: the key does not pass the filter
OnPressRejected(s) ==
    /\ hPc[s] = "idle"
    /\ pending[s] # <<>>
    /\ is_recording
    /\ ~Accepted(Decode(Head(pending[s]).key))
    /\ pending' = [pending EXCEPT ![s] = Tail(pending[s])]
    /\ due' = [due EXCEPT ![Head(pending[s]).press] =
                  @ \/ KeyIsLabelled(Head(pending[s]).key)]
    /\ UNCHANGED tkVars
    /\ UNCHANGED <<uiVars, audioVars, bufVars, kbPc, running, saveVars,
                   fsVars, invocations, presses, saves, listener,
                   input_device, now>>

\* lines 189-198 and 212-214: the key passes the filter, save_key_audio is
\* called and reads the clock, which shows the time of its latest reading
\* or a later one
OnPressAccepted(s, maxTime) ==
    /\ hPc[s] = "idle"
    /\ pending[s] # <<>>
    /\ is_recording
    /\ LET e == Head(pending[s]) IN
          /\ Accepted(Decode(e.key))
          /\ hKey' = [hKey EXCEPT ![s] = Decode(e.key)]
          /\ saves' = [saves EXCEPT ![e.press] = @ + 1]
          /\ due' = [due EXCEPT ![e.press] = @ \/ KeyIsLabelled(e.key)]
    /\ pending' = [pending EXCEPT ![s] = Tail(pending[s])]
    /\ \E t \in now..maxTime :
          /\ now' = t
          /\ hStamp' = [hStamp EXCEPT ![s] = t]
    /\ hPc' = [hPc EXCEPT ![s] = "acquire"]
    /\ invocations' = invocations + 1
    /\ hInv' = [hInv EXCEPT ![s] = invocations + 1]
    /\ UNCHANGED tkVars
    /\ UNCHANGED <<uiVars, audioVars, bufVars, kbPc, running, hSeg, hSeg16,
                   hSnap, fsVars, presses, listener, input_device>>

\* line 216: with self.buffer_lock (acquire)
SaveAcquire(s) ==
    /\ hPc[s] = "acquire"
    /\ buffer_lock = NoLock
    /\ buffer_lock' = <<"save", s>>
    /\ hPc' = [hPc EXCEPT ![s] = "locked"]
    /\ UNCHANGED tkVars
    /\ UNCHANGED <<uiVars, audioVars, heap, audio_buffer, delivered, kbVars,
                   hKey, hStamp, hSeg, hSeg16, hSnap, hInv, fsVars, pressVars,
                   listener, input_device, now>>

SaveSliceKeepsLock(s) ==
    /\ hPc[s] = "locked"
    /\ hSeg' = [hSeg EXCEPT ![s] = audio_buffer]
    /\ hSnap' = [hSnap EXCEPT ![s] = delivered]
    /\ hPc' = [hPc EXCEPT ![s] = "normalize"]
    /\ UNCHANGED tkVars
    /\ UNCHANGED <<uiVars, audioVars, bufVars, kbVars, hKey, hStamp, hSeg16,
                   hInv, fsVars, pressVars, listener, input_device, now>>

\* line 217 and the release of the lock: segment is a view of the array
\* self.audio_buffer refers to, not a copy
SaveSlice(s) ==
    /\ hPc[s] = "locked"
    /\ hSeg' = [hSeg EXCEPT ![s] = audio_buffer]
    /\ hSnap' = [hSnap EXCEPT ![s] = delivered]
    /\ buffer_lock' = NoLock
    /\ hPc' = [hPc EXCEPT ![s] = "normalize"]
    /\ UNCHANGED tkVars
    /\ UNCHANGED <<uiVars, audioVars, heap, audio_buffer, delivered, kbVars,
                   hKey, hStamp, hSeg16, hInv, fsVars, pressVars, listener,
                   input_device, now>>

\* what the view segment of listener s shows
Segment(s) == Tail_(heap[hSeg[s]], SegmentSamples)

\* lines 219-222
SaveNormalize(s) ==
    /\ hPc[s] = "normalize"
    /\ hSeg16' = [hSeg16 EXCEPT ![s] = Normalize(Segment(s))]
    /\ hPc' = [hPc EXCEPT ![s] = "wav"]
    /\ UNCHANGED tkVars
    /\ UNCHANGED <<uiVars, audioVars, bufVars, kbVars, hKey, hStamp, hSeg,
                   hSnap, hInv, fsVars, pressVars, listener, input_device,
                   now>>

\* the clip file save_key_audio of listener s writes
Clip(s, complete) ==
    [key |-> hKey[s], data |-> IF complete THEN hSeg16[s] ELSE <<>>,
     complete |-> complete, inv |-> hInv[s], snap |-> hSnap[s]]

\* lines 223-227: the clip is written and closed
SaveWavOk(s) ==
    /\ hPc[s] = "wav"
    /\ LET name == WavFilename(hKey[s], hStamp[s]) IN
          /\ files' = (name :> Clip(s, TRUE)) @@ files
          /\ wavLog' = Append(wavLog, [inv |-> hInv[s], file |-> name])
    /\ hPc' = [hPc EXCEPT ![s] = "row"]
    /\ UNCHANGED tkVars
    /\ UNCHANGED <<uiVars, audioVars, bufVars, kbVars, hKey, hStamp, hSeg,
                   hSeg16, hSnap, hInv, rows, pressVars, listener,
                   input_device, now>>

SaveWavErrorGoesOn(s) ==
    /\ hPc[s] = "wav"
    /\ hPc' = [hPc EXCEPT ![s] = "row"]
    /\ UNCHANGED tkVars
    /\ UNCHANGED <<uiVars, audioVars, bufVars, kbVars, hKey, hStamp, hSeg,
                   hSeg16, hSnap, hInv, fsVars, pressVars, listener,
                   input_device, now>>

\* lines 223-227, 236-238: writing the clip raises, before the file is
\* created or with the file left incomplete; save_key_audio returns
SaveWavError(s) ==
    /\ hPc[s] = "wav"
    /\ \/ files' = files
       \/ files' = (WavFilename(hKey[s], hStamp[s]) :> Clip(s, FALSE)) @@ files
    /\ Return(s)
    /\ Report("Save error")
    /\ UNCHANGED <<uiVars, audioVars, buffer_lock, audio_buffer, delivered,
                   kbVars, rows, wavLog, pressVars, listener, input_device,
                   now>>

\* lines 229-235: the metadata row is appended
SaveRowOk(s) ==
    /\ hPc[s] = "row"
    /\ rows' = Append(rows, [timestamp |-> hStamp[s], key |-> hKey[s],
                             wav_file |-> WavFilename(hKey[s], hStamp[s]),
                             inv |-> hInv[s]])
    /\ Return(s)
    /\ UNCHANGED tkVars
    /\ UNCHANGED <<uiVars, audioVars, buffer_lock, audio_buffer, delivered,
                   kbVars, files, wavLog, pressVars, listener, input_device,
                   now>>

\* lines 229-238: appending the row raises; save_key_audio returns
SaveRowError(s) ==
    /\ hPc[s] = "row"
    /\ Return(s)
    /\ Report("Save error")
    /\ UNCHANGED <<uiVars, audioVars, buffer_lock, audio_buffer, delivered,
                   kbVars, fsVars, pressVars, listener, input_device, now>>

(* ---------------------------- specification ---------------------------- *)

\* the Tk main thread starting at most maxSessions sessions of at most
\* maxDuration seconds, and the life of the threads it spawns
Lifecycle(maxSessions, maxDuration) ==
    \/ StartRecordingInvalid
    \/ StartRecordingReturn
    \/ StartRecording(maxSessions, maxDuration)
    \/ StopRecording
    \/ StopListener
    \/ \E s \in Sessions :
          \/ AudioNoDevice(s)
          \/ AudioOpenStream(s)
          \/ AudioOpenError(s)
          \/ AudioExit(s)
          \/ KbCreateListener(s)
          \/ KbStartListener(s)
          \/ KbHookError(s)
          \/ KbJoinReturns(s)

\* the input streams calling callback() with at most maxDelivered samples
Audio(maxDelivered) ==
    \E s \in Sessions :
        \/ CallbackNotRecording(s)
        \/ CallbackEnter(s, maxDelivered)
        \/ CallbackAcquire(s)
        \/ CallbackRollWrite(s)

\* at most maxPresses presses of the keys of the set keys, handled by
\* on_press and save_key_audio, with the clock showing times up to maxTime
Keyboard(keys, maxPresses, maxTime) ==
    \/ KeyPress(keys, maxPresses)
    \/ \E s \in Sessions :
          \/ OnPressNotRecording(s)
          \/ OnPressRejected(s)
          \/ OnPressAccepted(s, maxTime)
          \/ SaveAcquire(s)
          \/ SaveSlice(s)
          \/ SaveNormalize(s)
          \/ SaveWavOk(s)
          \/ SaveWavError(s)
          \/ SaveRowOk(s)
          \/ SaveRowError(s)

\* every step of the program and of its environment
Next(maxSessions, keys, maxPresses, maxDelivered, maxTime) ==
    \/ Lifecycle(maxSessions, MaxShortDuration)
    \/ Audio(maxDelivered)
    \/ Keyboard(keys, maxPresses, maxTime)

\* sessions, listeners and the key filter: any key, little audio
Spec ==
    Init /\ [][Next(MaxSessions, RawKeys, MaxPresses, MaxDeliveredKeys,
                    MaxTime)]_vars

\* clips and metadata rows of one session: several presses of few keys,
\* little audio
SpecFiles ==
    Init /\ [][Next(MaxFileSessions, FileKeys, MaxFilePresses,
                    MaxDeliveredKeys, MaxTime)]_vars

\* the rolling buffer and its snapshots: many samples, few key presses, a
\* clock that stands still
SpecAudio ==
    Init /\ [][Next(MaxSessions, AudioKeys, MaxAudioPresses, MaxDelivered,
                    MaxAudioTime)]_vars

\* the rolling buffer while no key is pressed: the sessions, their audio
\* threads and the callbacks of their streams
SpecBuffer ==
    Init /\ [][\/ StartRecording(MaxSessions, MaxShortDuration)
               \/ StopRecording
               \/ StopListener
               \/ \E s \in Sessions :
                     \/ AudioNoDevice(s)
                     \/ AudioOpenStream(s)
                     \/ AudioOpenError(s)
                     \/ AudioExit(s)
               \/ Audio(MaxDelivered)]_vars

\* float32 samples the input stream may deliver, among them a peak and a
\* sample whose quotient float32 arithmetic rounds across an integer
Samples == {-622, -597, -1, 0, 1, 597, 622}

\* a session in which the stream has filled audio_buffer with any samples
\* and save_key_audio, called for the key a, has just taken its slice
InitNormalize ==
    /\ is_recording = TRUE
    /\ timer_running = TRUE
    /\ recording_duration = MaxShortDuration
    /\ remaining_time = MaxShortDuration
    /\ start_button = "disabled"
    /\ stop_button = "normal"
    /\ listener = 1
    /\ input_device = TRUE
    /\ uiPc = "idle"
    /\ session = 1
    /\ audioPc = [s \in Sessions |-> IF s = 1 THEN "streaming" ELSE "none"]
    /\ cbPc = [s \in Sessions |-> "idle"]
    /\ cbFrames = [s \in Sessions |-> 0]
    /\ buffer_lock = NoLock
    /\ \E buf \in [1..BufferSamples -> Samples] :
          heap = [a \in ArrayIds |-> IF a = 1 THEN buf ELSE <<>>]
    /\ audio_buffer = 1
    /\ delivered = BufferSamples
    /\ kbPc = [s \in Sessions |-> IF s = 1 THEN "listening" ELSE "none"]
    /\ running = [s \in Sessions |-> s = 1]
    /\ pending = [s \in Sessions |-> <<>>]
    /\ hPc = [s \in Sessions |-> IF s = 1 THEN "normalize" ELSE "idle"]
    /\ hKey = [s \in Sessions |-> IF s = 1 THEN "a" ELSE ""]
    /\ hStamp = [s \in Sessions |-> 0]
    /\ hSeg = [s \in Sessions |-> IF s = 1 THEN 1 ELSE 0]
    /\ hSeg16 = [s \in Sessions |-> <<>>]
    /\ hSnap = [s \in Sessions |-> IF s = 1 THEN BufferSamples ELSE 0]
    /\ hInv = [s \in Sessions |-> IF s = 1 THEN 1 ELSE 0]
    /\ now = 0
    /\ files = [n \in {} |-> 0]
    /\ rows = <<>>
    /\ invocations = 1
    /\ presses = 1
    /\ saves = <<1>>
    /\ due = <<TRUE>>
    /\ wavLog = <<>>
    /\ status_label = "Recording"
    /\ timer_label = MaxShortDuration
    /\ status_after = [text \in StatusErrors |-> 0]
    /\ timers = <<TicksPerSecond>>
    /\ elapsed = 0

\* the normalization and the writes of save_key_audio, applied to any
\* segment
SpecNormalize ==
    InitNormalize /\ [][\E s \in Sessions :
                           \/ SaveNormalize(s)
                           \/ SaveWavOk(s)
                           \/ SaveRowOk(s)]_vars

\* the Tk event loop: time going by, the countdown and the status updates
TkLoop ==
    \/ Tick
    \/ CountdownIgnored
    \/ CountdownDecrement
    \/ CountdownStop
    \/ \E text \in StatusErrors : StatusUpdate(text)

\* sessions ended by the Stop button or by the countdown, with their
\* audio threads, whose errors Tk shows
SpecCountdown ==
    Init /\ [][\/ StartRecordingInvalid
               \/ StartRecordingReturn
               \/ StartRecording(MaxSessions, MaxDuration)
               \/ StopRecording
               \/ StopListener
               \/ \E s \in Sessions :
                     \/ AudioNoDevice(s)
                     \/ AudioOpenStream(s)
                     \/ AudioOpenError(s)
                     \/ AudioExit(s)
               \/ TkLoop]_vars

\* the same, with the Tk event loop never starving: time goes by and a
\* call that is due is run; the threads and the user may do anything or
\* nothing
SpecCountdownFair ==
    /\ SpecCountdown
    /\ WF_vars(Tick)
    /\ WF_vars(CountdownIgnored)
    /\ WF_vars(CountdownDecrement)
    /\ WF_vars(CountdownStop)

\* one session with key presses, and stop_recording also called while the
\* Stop button is disabled
SpecStop ==
    Init /\ [][\/ Next(MaxFileSessions, FileKeys, MaxFilePresses,
                        MaxDeliveredKeys, MaxTime)
               \/ StopRecordingRepeated]_vars

(* ------------------------------- claims -------------------------------- *)

\* the buffer after d samples were written: the last BufferSamples samples
\* of BufferSamples zeros followed by the samples 1, 2, ..., d
Window(d) ==
    [i \in 1..BufferSamples |->
        IF d - BufferSamples + i >= 1 THEN d - BufferSamples + i ELSE 0]

\* the last SegmentSamples samples of Window(d)
Trailing(d) ==
    [j \in 1..SegmentSamples |-> Window(d)[BufferSamples - SegmentSamples + j]]

\* C1: the segment save_key_audio normalizes and writes is the trailing
\* segment of the buffer as it stood after exactly the callbacks whose
\* critical section came before the snapshot's: the view keeps showing
\* those samples while callbacks go on appending, the encoded samples are
\* their normalization, and so is the data of every clip written.
C1_SnapshotLinearizable ==
    /\ \A s \in Sessions :
          /\ hPc[s] \in {"normalize", "wav", "row"} =>
                Segment(s) = Trailing(hSnap[s])
          /\ hPc[s] \in {"wav", "row"} =>
                hSeg16[s] = Normalize(Trailing(hSnap[s]))
    /\ \A n \in DOMAIN files :
          files[n].complete => files[n].data = Normalize(Trailing(files[n].snap))

\* C1: a callback has appended samples after a snapshot of nonzero samples
\* was taken and before that segment was normalized
C1_Witness ==
    \E s \in Sessions :
        hPc[s] = "normalize" /\ hSnap[s] >= 1 /\ delivered > hSnap[s]

\* C2: after every callback audio_buffer has buffer_samples entries and
\* holds the last buffer_samples samples of the zeros followed by all
\* delivered samples, however the samples were split into callbacks.
C2_RollingWindow ==
    /\ Len(heap[audio_buffer]) = BufferSamples
    /\ heap[audio_buffer] = Window(delivered)

\* C2: more samples than the buffer holds were delivered, so the oldest
\* were evicted
C2_Witness == delivered > BufferSamples /\ cbPc = [s \in Sessions |-> "idle"]

\* key press p has been through on_press of every listener it was queued for
Handled(p) ==
    \A s \in Sessions :
        \A i \in 1..Len(pending[s]) : pending[s][i].press # p

\* C3: a key press handled while a session is active that decodes to one
\* printable character or to space, enter or backspace causes exactly one
\* save_key_audio invocation, and every other key press causes none.
C3_ExactlyOneKeyEvent ==
    \A p \in 1..presses :
        Handled(p) => saves[p] = IF due[p] THEN 1 ELSE 0

\* stop_recording has returned for session s
Stopped(s) ==
    \/ s < session
    \/ s = session /\ stop_button = "disabled" /\ uiPc = "idle"

\* C4: once stop_recording has returned, no keyboard listener created for
\* that session is registered.
C4_StopUnregistersHook ==
    \A s \in Sessions : Stopped(s) => ~running[s]

\* C5: once stop_recording has returned, no audio callback modifies
\* audio_buffer until the next start_recording.
C5_StopHaltsAppends ==
    [][(uiPc = "idle" /\ ~is_recording) =>
          heap'[audio_buffer'] = heap[audio_buffer]]_vars

\* thread s of the program has been started and has not returned
AudioAlive(s) == audioPc[s] \in {"spawned", "streaming"}
KeyboardAlive(s) == kbPc[s] \in {"spawned", "created", "listening"}

\* C6: when a later session has been started, no audio thread, input
\* stream or keyboard thread of an earlier session is still running.
C6_NoThreadOutlivesSession ==
    \A s \in Sessions : (AudioAlive(s) \/ KeyboardAlive(s)) => s = session

\* C7: every row of the metadata log names a clip file that exists and
\* that the row's save_key_audio invocation had completely written before
\* it appended the row.
C7_RowNamesWrittenClip ==
    \A i \in 1..Len(rows) :
        /\ rows[i].wav_file \in DOMAIN files
        /\ \E j \in 1..Len(wavLog) :
              wavLog[j].inv = rows[i].inv /\ wavLog[j].file = rows[i].wav_file

\* C7: a row has been appended, and a clip write that failed has left an
\* incomplete file and no row
C7_Witness ==
    /\ rows # <<>>
    /\ \E n \in DOMAIN files :
          /\ ~files[n].complete
          /\ \A i \in 1..Len(rows) : rows[i].inv # files[n].inv

\* C8: once every save_key_audio has returned, the metadata log has exactly
\* one row per successfully written clip, in the order of the clip writes.
C8_OneRowPerClip ==
    (\A s \in Sessions : hPc[s] = "idle") =>
        [i \in 1..Len(rows) |-> rows[i].inv] =
            [j \in 1..Len(wavLog) |-> wavLog[j].inv]

\* C9: no two save_key_audio invocations write to the same file name.
C9_UniqueFileNames ==
    \A i, j \in 1..Len(wavLog) :
        i # j => wavLog[i].file # wavLog[j].file

\* the labels on_press has passed to save_key_audio and those of the clips
\* and of the metadata rows
Labels ==
    {hKey[s] : s \in {t \in Sessions : hPc[t] # "idle"}}
        \cup {files[n].key : n \in DOMAIN files}
        \cup {rows[i].key : i \in 1..Len(rows)}

\* one printable character
SinglePrintable(k) == Len(k) = 1 /\ k \notin {"\t"}

\* C10 as amended: the label of every key event, as used in the clip file
\* name and in the key column, is one printable character or one of the
\* strings Key.space, Key.enter, Key.backspace.
C10_LabelAlphabet ==
    /\ \A k \in Labels :
          SinglePrintable(k) \/ k \in {"Key.space", "Key.enter", "Key.backspace"}
    /\ \A n \in DOMAIN files :
          \E t \in 0..MaxTime :
              n = files[n].key \o "_" \o ToString(t) \o ".wav"
    /\ \A i \in 1..Len(rows) :
          rows[i].wav_file =
              rows[i].key \o "_" \o ToString(rows[i].timestamp) \o ".wav"

\* C10: the space key was pressed and its clip and row were written
C10_Witness ==
    \E i \in 1..Len(rows) :
        rows[i].key = "Key.space" /\ rows[i].wav_file \in DOMAIN files

\* C10 as stated: the label is one printable character or one of the
\* strings space, enter, backspace.
C10_LabelAlphabetAsStated ==
    \A k \in Labels :
        SinglePrintable(k) \/ k \in {"space", "enter", "backspace"}

\* the thread that holds buffer_lock is inside one of the two with blocks:
\* the slice of save_key_audio or the roll-and-write of callback
InCriticalSection ==
    \/ buffer_lock = NoLock
    \/ buffer_lock[1] = "save" /\ hPc[buffer_lock[2]] = "locked"
    \/ buffer_lock[1] = "callback" /\ cbPc[buffer_lock[2]] = "locked"

\* C11: buffer_lock is never held while save_key_audio normalizes, writes
\* the clip or appends the metadata row, so whatever a callback waits for
\* at line 169 is a slice or a roll-and-write.
C11_LockNeverHeldDuringIO ==
    /\ InCriticalSection
    /\ \A s \in Sessions :
          hPc[s] \in {"normalize", "wav", "row"} => buffer_lock # <<"save", s>>

\* C11: a callback is inside its critical section while save_key_audio is
\* writing a clip or a row
C11_Witness ==
    \E s, t \in Sessions :
        hPc[s] \in {"wav", "row"} /\ cbPc[t] = "locked"


\* C12: on_press of an accepted key returns before the clip write and the
\* metadata append of that key are done, so no key press waits in a
\* listener's queue while that listener's on_press writes a clip or a row.
C12_HookNeverWaitsForEncoding ==
    \A s \in Sessions :
        pending[s] # <<>> => hPc[s] \notin {"wav", "row"}


\* save_key_audio of listener s returns from its except clause: the clip
\* write or the row append has raised
SaveFailed(s) ==
    /\ hPc[s] \in {"wav", "row"}
    /\ hPc'[s] = "idle"
    /\ rows' = rows

\* C13: when the clip write or the row append of one key event fails, the
\* failure is scheduled for the status label, no row is appended for the
\* event, is_recording, the audio threads and the keyboard threads are as
\* before, and every clip written completely before and every metadata
\* row is unchanged.
C13_SaveErrorIsLocal ==
    [][\A s \in Sessions :
          SaveFailed(s) =>
             /\ status_after'["Save error"] = status_after["Save error"] + 1
             /\ UNCHANGED <<is_recording, audioVars, kbVars, rows>>
             /\ \A n \in DOMAIN files :
                   files[n].complete =>
                      n \in DOMAIN files' /\ files'[n] = files[n]]_vars


\* audio thread s returns from record_audio because of a device error
AudioFailed(s) == audioPc[s] = "spawned" /\ audioPc'[s] = "done"

\* C14: when record_audio finds no input device or opening the stream
\* raises, one status update is scheduled, the audio thread ends,
\* is_recording, audio_buffer and the keyboard threads, their listeners
\* and queued key presses are as before; and when there is no input
\* device, audio_buffer is never written and every clip written is all
\* zero.
C14_DeviceErrorAbortsAudioOnly ==
    [][/\ \A s \in Sessions :
             AudioFailed(s) =>
                /\ status_after'["Audio error"] =
                      status_after["Audio error"] + 1
                /\ heap'[audio_buffer'] = heap[audio_buffer]
                /\ UNCHANGED <<is_recording, kbVars, saveVars>>
       /\ ~input_device' =>
             /\ delivered' = 0
             /\ heap'[audio_buffer'] = Zeros(BufferSamples)
             /\ \A n \in DOMAIN files' :
                   files'[n].complete =>
                      files'[n].data = Zeros(SegmentSamples)]_vars

\* C14: with no input device the audio thread has reported and ended, the
\* session goes on and a key press has produced a clip
C14_Witness ==
    /\ ~input_device
    /\ is_recording
    /\ audioPc[session] = "done"
    /\ status_after["Audio error"] >= 1
    /\ \E n \in DOMAIN files : files[n].complete


\* start_recording rejects the duration and shows the error box, or
\* returns from it
InvalidStart ==
    \/ uiPc = "idle" /\ uiPc' = "error_dialog"
    \/ uiPc = "error_dialog" /\ uiPc' = "idle"

\* C15: a start_recording call with an invalid duration shows the error
\* box and returns with is_recording, timer_running, recording_duration,
\* remaining_time, the scheduled countdown calls, the labels and the
\* threads unchanged: no session and no thread is started for it.
C15_InvalidDurationBlocksStart ==
    [][InvalidStart =>
          UNCHANGED <<is_recording, timer_running, recording_duration,
                      remaining_time, start_button, stop_button, session,
                      timers, status_label, timer_label, audioVars,
                      kbVars>>]_vars

\* C15: the error box is open after an earlier session, whose countdown
\* call is still scheduled
C15_Witness ==
    /\ uiPc = "error_dialog"
    /\ session >= 1
    /\ recording_duration = MaxDuration
    /\ timers # <<>>


\* what a stop_recording call leaves behind
PostStop ==
    /\ ~is_recording
    /\ ~timer_running
    /\ timer_label = 0
    /\ status_label = "Idle"
    /\ start_button = "normal"
    /\ stop_button = "disabled"
    /\ listener = 0 \/ ~running[listener]

\* every variable but the position of the Tk main thread
exceptUiPc ==
    <<is_recording, timer_running, recording_duration, remaining_time,
      start_button, stop_button, session, audioVars, bufVars, kbVars,
      saveVars, fsVars, pressVars, tkVars, listener, input_device, now>>

\* C16: stop_recording, called in any state, returns with is_recording
\* and timer_running false, the labels and buttons reset and the listener
\* self.listener refers to stopped; and a call made in the state such a
\* call leaves behind changes nothing, neither in lines 133-138 nor in
\* lines 139-143.
C16_StopIdempotent ==
    [][/\ (uiPc = "stop_listener" /\ uiPc' = "idle") => PostStop'
       /\ (/\ PostStop
           /\ uiPc # uiPc'
           /\ uiPc = "stop_listener" \/ uiPc' = "stop_listener") =>
             UNCHANGED exceptUiPc]_vars

\* C16: stop_recording runs again after the session was stopped, its
\* listener was torn down and a save had failed
C16_Witness ==
    /\ uiPc = "stop_listener"
    /\ \E s \in Sessions : kbPc[s] = "done" /\ listener = s
    /\ status_after["Save error"] >= 1


\* C17: when start_recording starts a session, the first or a later one,
\* audio_buffer holds only zeros.
C17_BufferScopedToSession ==
    [][session' = session + 1 =>
          heap'[audio_buffer'] = Zeros(BufferSamples)]_vars


\* segment_int16 of listener s is the segment seg with peak p > 0, scaled:
\* 16-bit range, the peak at full scale, and each sample at most `slack'
\* away from seg[j] / p * 32767 truncated toward zero
Scaled(s, slack) ==
    LET seg == Segment(s)
        p == MaxAbs(seg)
        out == hSeg16[s]
    IN \A j \in 1..SegmentSamples :
          /\ out[j] \in -32767..32767
          /\ seg[j] = p => out[j] = 32767
          /\ seg[j] = -p => out[j] = -32767
          /\ Abs(out[j] - TruncDiv(seg[j] * 32767, p)) <= slack

\* segment_int16 of every save_key_audio that has normalized its segment
\* is all zero for an all-zero segment and scaled otherwise
Normalized(slack) ==
    \A s \in Sessions :
        hPc[s] \in {"wav", "row"} =>
           /\ Len(hSeg16[s]) = SegmentSamples
           /\ IF MaxAbs(Segment(s)) = 0
              THEN hSeg16[s] = Zeros(SegmentSamples)
              ELSE Scaled(s, slack)

\* C18 as amended: an all-zero segment is encoded as all zero; for a
\* segment with peak P > 0 every encoded sample lies in -32767..32767, the
\* samples at the peak encode to exactly +32767 or -32767, and every other
\* sample x encodes to the float32 value of x / P * 32767 truncated toward
\* zero, which is at most 1 away from the exact x / P * 32767 truncated
\* toward zero.
C18_PeakNormalization == Normalized(1)

\* C18: a segment with a nonzero peak and a nonzero sample below the peak
\* has been encoded
C18_Witness ==
    \E s \in Sessions :
        /\ hPc[s] = "wav"
        /\ \E j \in 1..SegmentSamples :
              Segment(s)[j] # 0 /\ Abs(Segment(s)[j]) < MaxAbs(Segment(s))

\* C18 as stated: every sample x below the peak encodes to exactly
\* x / P * 32767 truncated toward zero.
C18_PeakNormalizationAsStated == Normalized(0)


\* C19: remaining_time is never negative, and every session that was
\* started ends, by the Stop button or by the countdown, whatever
\* start_recording and stop_recording calls came before.
C19_SessionEnds ==
    /\ [](remaining_time >= 0)
    /\ is_recording ~> ~is_recording

\* C19: the countdown of the last and longest session has run down to zero
\* and the session has ended
C19_Witness ==
    /\ ~is_recording
    /\ session = MaxSessions
    /\ recording_duration = MaxDuration
    /\ remaining_time = 0
    /\ timers = <<>>


\* at most one countdown_timer call is scheduled
OneCountdownPending == [](Len(timers) <= 1)

\* remaining_time has been decremented at most once per second of the
\* current session
DecrementPerSecond ==
    [](is_recording =>
          (recording_duration - remaining_time) * TicksPerSecond <= elapsed)

\* countdown_timer, and not the Stop button, ends the session in this step
EndedByCountdown ==
    is_recording /\ ~is_recording' /\ Len(timers') < Len(timers)

\* the countdown ends no session before its duration has elapsed
NeverEndsEarly ==
    [][EndedByCountdown =>
          elapsed >= recording_duration * TicksPerSecond]_vars

\* C20: over any sequence of start_recording, stop_recording and timer
\* firings at most one countdown_timer call is scheduled, remaining_time
\* goes down by 1 per elapsed second of the current session, and the
\* countdown ends no session of duration D before D seconds have elapsed.
C20_SingleCountdown ==
    /\ OneCountdownPending
    /\ DecrementPerSecond
    /\ NeverEndsEarly

====
